---- MODULE Spec2Model ----
(***************************************************************************)
(* A model of collector.py: the Redfish collector (RedfishCollector and    *)
(* main).  Strings the code inspects character by character (endpoint      *)
(* paths, file names, environment values) are sequences of one-character   *)
(* strings.  Calls into the outside world (HTTP GET, open/json.dump, the   *)
(* MongoDB driver) succeed or raise as the environment decides; the        *)
(* decision for one call of get_api_response is an Outcome record.         *)
(***************************************************************************)
EXTENDS Naturals, Sequences, FiniteSets, TLC

VARIABLES
    environ,      \* os.environ after load_dotenv(): variable name -> value or Unset
    pc,           \* "main" | "collect" | "complete" | "config_error" | "crashed"
    collector,    \* the RedfishCollector built by main (NoCollector before)
    i,            \* position of the for loop of collect_all in api_endpoints
    run,          \* number of the current invocation of the process (also its clock)
    files,        \* redfish_data/: file name -> content
    records,      \* the MongoDB collection, in insertion order
    openClients,  \* MongoClient objects created by this process and not closed
    trace,        \* calls made by this run: GET, save_file, save_mongodb
    outcomes,     \* the environment's decisions, one per loop iteration so far
    rets,         \* what get_api_response returned, one per loop iteration so far
    faults,       \* loop iterations so far (all runs) in which some call failed
    error,        \* the variable names in the ValueError raised by main
    pathA, pathB, \* two endpoint paths given to the file name derivation
    nameA, nameB  \* the file names derived from them (NoName before)

vars == <<environ, pc, collector, i, run, files, records, openClients, trace,
          outcomes, rets, faults, error, pathA, pathB, nameA, nameB>>

progVars == <<environ, pc, collector, i, run, files, records, openClients, trace,
              outcomes, rets, faults, error>>

pathVars == <<pathA, pathB, nameA, nameB>>

-----------------------------------------------------------------------------
(* Bounds *)

\* process invocations in the repeated-run specification
MaxRuns == 2
\* loop iterations with a failing call in the repeated-run specification
MaxFaults == 1
\* length of the generated endpoint paths given to the file name derivation
MaxLen == 3

-----------------------------------------------------------------------------
(* Strings *)

Slash == "/"
Underscore == "_"

EndpointRoot == <<"/","r","e","d","f","i","s","h","/","v","1">>
EndpointSystems == EndpointRoot \o <<"/","S","y","s","t","e","m","s","/","1">>
EndpointChassis == EndpointRoot \o <<"/","C","h","a","s","s","i","s","/","1">>
EndpointManagers == EndpointRoot \o <<"/","M","a","n","a","g","e","r","s","/","1">>

\* self.api_endpoints
api_endpoints == <<EndpointRoot, EndpointSystems, EndpointChassis, EndpointManagers>>

\* str.strip('/'): drop every leading and every trailing '/'
RECURSIVE LStrip(_)
LStrip(s) == IF s # <<>> /\ Head(s) = Slash THEN LStrip(Tail(s)) ELSE s

RECURSIVE RStrip(_)
RStrip(s) ==
    IF s # <<>> /\ s[Len(s)] = Slash THEN RStrip(SubSeq(s, 1, Len(s) - 1)) ELSE s

Strip(s) == RStrip(LStrip(s))

\* str.replace('/', '_')
Replace(s) == [k \in 1..Len(s) |-> IF s[k] = Slash THEN Underscore ELSE s[k]]

RootToken == <<"r","o","o","t">>
JsonSuffix == <<".","j","s","o","n">>

\* a plausible slip: the separators are dropped instead of replaced
FileNameDropSeparators(endpoint) ==
    LET stripped == SelectSeq(Strip(endpoint), LAMBDA c : c # Slash)
    IN  (IF stripped = <<>> THEN RootToken ELSE stripped) \o JsonSuffix

\* filename = endpoint.strip('/').replace('/', '_') or 'root'; f"{filename}.json"
FileName(endpoint) ==
    LET stripped == Replace(Strip(endpoint))
    IN  (IF stripped = <<>> THEN RootToken ELSE stripped) \o JsonSuffix

\* str.lower() on the letters the environment values use
LowerChar(c) ==
    CASE c = "T" -> "t"
      [] c = "R" -> "r"
      [] c = "U" -> "u"
      [] c = "E" -> "e"
      [] c = "N" -> "n"
      [] c = "O" -> "o"
      [] OTHER -> c

Lower(s) == [k \in 1..Len(s) |-> LowerChar(s[k])]

-----------------------------------------------------------------------------
(* Environment and main *)

\* os.getenv returns None for a variable that is not set
Unset == <<"<None>">>

RequiredVars == <<"ILO_HOST", "ILO_USER", "ILO_PASSWORD">>
EnvVars == {"TEST_MODE", "ILO_HOST", "ILO_USER", "ILO_PASSWORD"}

TestModeValues == {Unset, <<"T","r","u","e">>, <<"n","o">>}
CredentialValues == {Unset, <<>>, <<"x">>}

Environments ==
    {e \in [EnvVars -> TestModeValues \cup CredentialValues] :
        /\ e["TEST_MODE"] \in TestModeValues
        /\ \A v \in EnvVars \ {"TEST_MODE"} : e[v] \in CredentialValues}

\* os.getenv(name, default)
Getenv(env, name, default) == IF env[name] = Unset THEN default ELSE env[name]

\* os.getenv('TEST_MODE', '').lower() in ('true', '1', 't')
TestMode(env) ==
    Lower(Getenv(env, "TEST_MODE", <<>>)) \in {<<"t","r","u","e">>, <<"1">>, <<"t">>}

\* a plausible slip: only an unset variable counts as missing
MissingUnsetOnly(env) ==
    SelectSeq(RequiredVars, LAMBDA v : env[v] = Unset)

\* missing = [var for var in required_vars if not os.getenv(var)]
Missing(env) ==
    SelectSeq(RequiredVars, LAMBDA v : env[v] = Unset \/ env[v] = <<>>)

NoCollector == [constructed |-> FALSE, base_url |-> <<>>, test_mode |-> FALSE]

MockHost == <<"mock-ilo">>

\* RedfishCollector.__init__
NewCollector(host, test_mode) ==
    [constructed |-> TRUE, base_url |-> <<"https://">> \o host, test_mode |-> test_mode]

-----------------------------------------------------------------------------
(* The environment's decisions for one call of get_api_response *)

FetchFailures == {"http_error", "transport_error", "bad_json"}

\* fetch: how session.get / raise_for_status / response.json end ("mock" in
\* test mode, where no request is made); file: open and json.dump succeed;
\* conn: MongoClient(...) succeeds; ping: server_info() succeeds;
\* insert: insert_one succeeds; close: client.close() succeeds.
\* Decisions about calls that are never made are fixed to TRUE.
Outcomes(test_mode) ==
    {o \in [fetch  : IF test_mode THEN {"mock"} ELSE {"ok"} \cup FetchFailures,
            file   : BOOLEAN,
            conn   : BOOLEAN,
            ping   : BOOLEAN,
            insert : BOOLEAN,
            close  : BOOLEAN] :
        /\ o.fetch \in FetchFailures =>
              o.file /\ o.conn /\ o.ping /\ o.insert /\ o.close
        /\ ~o.conn => o.ping /\ o.insert /\ o.close
        /\ ~o.ping => o.insert /\ o.close}

Faulty(o) ==
    \/ o.fetch \in FetchFailures
    \/ ~(o.file /\ o.conn /\ o.ping /\ o.insert /\ o.close)

\* the exception each failing fetch raises
FetchException(fetch) ==
    CASE fetch = "http_error"      -> "HTTPError"
      [] fetch = "transport_error" -> "ConnectionError"
      [] fetch = "bad_json"        -> "JSONDecodeError"

\* a plausible slip: the JSON decoding error of response.json() is left out
IsRequestExceptionNoJson(exc) == exc \in {"HTTPError", "ConnectionError"}

\* except requests.exceptions.RequestException: the classes the clause catches.
\* requests.exceptions.JSONDecodeError, raised by response.json(), is one of them.
IsRequestException(exc) == exc \in {"HTTPError", "ConnectionError", "JSONDecodeError"}

-----------------------------------------------------------------------------
(* The sinks *)

\* the mock document of test mode
MockData(endpoint, now) == [endpoint |-> endpoint, mock_data |-> TRUE, timestamp |-> now]

\* the document the management interface answers with
LiveData(endpoint, now) == [endpoint |-> endpoint, mock_data |-> FALSE, timestamp |-> now]

Event(op, endpoint) == [op |-> op, endpoint |-> endpoint]

\* a plausible slip: the file is written only when it does not exist yet
SaveToFileKeepOld(fs, data, endpoint, o) ==
    IF o.file /\ FileName(endpoint) \notin DOMAIN fs
       THEN [files |-> (FileName(endpoint) :> data) @@ fs, ret |-> TRUE]
       ELSE [files |-> fs, ret |-> o.file]

\* _save_to_file: open(filepath, 'w') and json.dump, any Exception -> False
SaveToFile(fs, data, endpoint, o) ==
    IF o.file
       THEN [files |-> (FileName(endpoint) :> data) @@ fs, ret |-> TRUE]
       ELSE [files |-> fs, ret |-> FALSE]

\* _get_mongo_client: the client, or None when MongoClient(...) or
\* server_info() raises; a client whose server_info() raises is dropped as it is
GetMongoClient(open, o) ==
    IF ~o.conn THEN [client |-> FALSE, open |-> open]
    ELSE IF ~o.ping THEN [client |-> FALSE, open |-> open + 1]
    ELSE [client |-> TRUE, open |-> open + 1]

\* the document _save_to_mongodb builds; the driver adds _id
Document(recs, data, endpoint, c, now) ==
    [id |-> Len(recs) + 1,
     endpoint |-> endpoint,
     data |-> data,
     collection_date |-> now,
     source |-> c.base_url,
     test_mode |-> c.test_mode]

\* _save_to_mongodb: ret is "True", "False", or "raise" when the exception of
\* client.close() in the finally block leaves the function
SaveToMongodb(recs, open, data, endpoint, c, now, o) ==
    LET got == GetMongoClient(open, o)
    IN  IF ~got.client
           THEN [records |-> recs, open |-> got.open, ret |-> "False"]
           ELSE LET after == IF o.insert
                                THEN Append(recs, Document(recs, data, endpoint, c, now))
                                ELSE recs
                    ret == IF o.insert THEN "True" ELSE "False"
                IN  IF o.close
                       THEN [records |-> after, open |-> got.open - 1, ret |-> ret]
                       ELSE [records |-> after, open |-> got.open, ret |-> "raise"]

\* a plausible slip: the database write is made only when the file write succeeded
SinkWritesFileFirst(st, data, endpoint, o) ==
    LET f == SaveToFile(st.files, data, endpoint, o)
        m == SaveToMongodb(st.records, st.open, data, endpoint, st.collector, st.now, o)
    IN  IF f.ret
           THEN [files |-> f.files, records |-> m.records, open |-> m.open,
                 trace |-> st.trace \o <<Event("save_file", endpoint),
                                         Event("save_mongodb", endpoint)>>,
                 ret |-> m.ret]
           ELSE [files |-> f.files, records |-> st.records, open |-> st.open,
                 trace |-> Append(st.trace, Event("save_file", endpoint)),
                 ret |-> "False"]

\* self._save_to_file(data, endpoint); self._save_to_mongodb(data, endpoint)
SinkWrites(st, data, endpoint, o) ==
    LET f == SaveToFile(st.files, data, endpoint, o)
        m == SaveToMongodb(st.records, st.open, data, endpoint, st.collector, st.now, o)
    IN  [files |-> f.files, records |-> m.records, open |-> m.open,
         trace |-> st.trace \o <<Event("save_file", endpoint),
                                 Event("save_mongodb", endpoint)>>,
         ret |-> m.ret]

\* get_api_response: ret is "data", "None", or "raise" when an exception leaves it
GetApiResponse(st, endpoint, o) ==
    IF st.collector.test_mode
       THEN LET w == SinkWrites(st, MockData(endpoint, st.now), endpoint, o)
            IN  [w EXCEPT !.ret = IF w.ret = "raise" THEN "raise" ELSE "data"]
       ELSE LET got == [st EXCEPT !.trace = Append(st.trace, Event("GET", endpoint))]
            IN  IF o.fetch \in FetchFailures
                   THEN [files |-> st.files, records |-> st.records, open |-> st.open,
                         trace |-> got.trace,
                         ret |-> IF IsRequestException(FetchException(o.fetch))
                                    THEN "None" ELSE "raise"]
                   ELSE LET w == SinkWrites(got, LiveData(endpoint, st.now), endpoint, o)
                        IN  [w EXCEPT !.ret =
                                IF w.ret # "raise" THEN "data"
                                ELSE IF IsRequestException("PyMongoError")
                                        THEN "None" ELSE "raise"]

-----------------------------------------------------------------------------
(* The program *)

NoName == <<"<none>">>

Init ==
    /\ environ \in Environments
    /\ pc = "main"
    /\ collector = NoCollector
    /\ i = 1
    /\ run = 1
    /\ files = <<>>
    /\ records = <<>>
    /\ openClients = 0
    /\ trace = <<>>
    /\ outcomes = <<>>
    /\ rets = <<>>
    /\ faults = 0
    /\ error = <<>>
    /\ pathA = <<>>
    /\ pathB = <<>>
    /\ nameA = NoName
    /\ nameB = NoName

\* main, up to the call of collect_all
Main ==
    /\ pc = "main"
    /\ IF TestMode(environ)
          THEN /\ collector' = NewCollector(MockHost, TRUE)
               /\ pc' = "collect"
               /\ error' = <<>>
          ELSE IF Missing(environ) # <<>>
                  THEN /\ collector' = collector
                       /\ pc' = "config_error"
                       /\ error' = Missing(environ)
                  ELSE /\ collector' = NewCollector(environ["ILO_HOST"], FALSE)
                       /\ pc' = "collect"
                       /\ error' = <<>>
    /\ i' = 1
    /\ UNCHANGED <<environ, run, files, records, openClients, trace, outcomes,
                   rets, faults>>
    /\ UNCHANGED pathVars

\* one iteration of the for loop of collect_all
CollectStep ==
    /\ pc = "collect"
    /\ i <= Len(api_endpoints)
    /\ \E o \in Outcomes(collector.test_mode) :
          LET st == [files |-> files, records |-> records, open |-> openClients,
                     trace |-> trace, collector |-> collector, now |-> run]
              r == GetApiResponse(st, api_endpoints[i], o)
          IN  /\ files' = r.files
              /\ records' = r.records
              /\ openClients' = r.open
              /\ trace' = r.trace
              /\ outcomes' = Append(outcomes, o)
              /\ rets' = Append(rets, r.ret)
              /\ faults' = IF Faulty(o) THEN faults + 1 ELSE faults
              /\ IF r.ret = "raise"
                    THEN pc' = "crashed" /\ i' = i
                    ELSE pc' = pc /\ i' = i + 1
    /\ UNCHANGED <<environ, collector, run, error>>
    /\ UNCHANGED pathVars

\* the end of collect_all: print("\nCollection complete!")
Complete ==
    /\ pc = "collect"
    /\ i > Len(api_endpoints)
    /\ pc' = "complete"
    /\ UNCHANGED <<environ, collector, i, run, files, records, openClients, trace,
                   outcomes, rets, faults, error>>
    /\ UNCHANGED pathVars

Next == Main \/ CollectStep \/ Complete

Spec == Init /\ [][Next]_vars

-----------------------------------------------------------------------------
(* Repeated invocations of the process *)

\* the process has ended and is started again: files and the collection stay,
\* everything the process held is gone
Rerun ==
    /\ pc \in {"complete", "crashed", "config_error"}
    /\ run < MaxRuns
    /\ run' = run + 1
    /\ pc' = "main"
    /\ collector' = NoCollector
    /\ i' = 1
    /\ openClients' = 0
    /\ trace' = <<>>
    /\ outcomes' = <<>>
    /\ rets' = <<>>
    /\ error' = <<>>
    /\ UNCHANGED <<environ, files, records, faults>>
    /\ UNCHANGED pathVars

BoundedCollectStep == CollectStep /\ faults' <= MaxFaults

NextRepeat == Main \/ BoundedCollectStep \/ Complete \/ Rerun

SpecRepeat == Init /\ [][NextRepeat]_vars

-----------------------------------------------------------------------------
(* The file name derivation on its own *)

PathChars == {Slash, Underscore, "a"}

RECURSIVE PathsOfLen(_)
PathsOfLen(n) ==
    IF n = 0 THEN {<<>>}
    ELSE {Append(p, c) : p \in PathsOfLen(n - 1), c \in PathChars}

Paths ==
    UNION {PathsOfLen(n) : n \in 0..MaxLen}
      \cup {api_endpoints[k] : k \in 1..Len(api_endpoints)}
      \cup {RootToken, <<Slash>> \o RootToken}

InitFileName ==
    /\ environ = [v \in EnvVars |-> Unset]
    /\ pc = "main"
    /\ collector = NoCollector
    /\ i = 1
    /\ run = 1
    /\ files = <<>>
    /\ records = <<>>
    /\ openClients = 0
    /\ trace = <<>>
    /\ outcomes = <<>>
    /\ rets = <<>>
    /\ faults = 0
    /\ error = <<>>
    /\ pathA \in Paths
    /\ pathB \in Paths
    /\ nameA = NoName
    /\ nameB = NoName

Derive ==
    /\ nameA = NoName
    /\ nameA' = FileName(pathA)
    /\ nameB' = FileName(pathB)
    /\ UNCHANGED <<pathA, pathB>>
    /\ UNCHANGED progVars

NextFileName == Derive

SpecFileName == InitFileName /\ [][NextFileName]_vars

-----------------------------------------------------------------------------
(* Properties *)

Endpoints == 1..Len(api_endpoints)

\* calls of kind op this run made for endpoint e
Count(op, e) == Cardinality({k \in 1..Len(trace) : trace[k] = Event(op, e)})

\* the loop has run its iteration for the k-th endpoint
Processed(k) == k <= Len(outcomes)

\* the fetch of the k-th endpoint succeeded
Fetched(k) == Processed(k) /\ outcomes[k].fetch \in {"ok", "mock"}

\* the file of endpoint e holds the document this run collected for e
FileWritten(e) ==
    /\ FileName(e) \in DOMAIN files
    /\ files[FileName(e)].endpoint = e
    /\ files[FileName(e)].timestamp = run

\* the collection holds a record of endpoint e inserted by invocation r
RecordsOf(e, r) ==
    {n \in 1..Len(records) : records[n].endpoint = e /\ records[n].collection_date = r}

Ended == pc \in {"complete", "crashed"}

\* C1: every endpoint whose fetch succeeds gets exactly one call of
\* _save_to_file and exactly one call of _save_to_mongodb, whatever the other
\* call did: when the file can be written it is written even if the database
\* write fails, and when the database accepts the insert the record is there
\* even if the file write fails.
C1_SinkIndependence ==
    \A k \in Endpoints :
        /\ Count("save_file", api_endpoints[k]) <= 1
        /\ Count("save_mongodb", api_endpoints[k]) <= 1
        /\ Fetched(k) =>
              /\ Count("save_file", api_endpoints[k]) = 1
              /\ Count("save_mongodb", api_endpoints[k]) = 1
              /\ outcomes[k].file => FileWritten(api_endpoints[k])
              /\ (outcomes[k].conn /\ outcomes[k].ping /\ outcomes[k].insert)
                    => Cardinality(RecordsOf(api_endpoints[k], run)) = 1

\* one endpoint's file write failed and its record was inserted, another
\* endpoint's database was unreachable and its file was written
C1_Witness ==
    \E k1, k2 \in Endpoints :
        /\ Fetched(k1) /\ ~outcomes[k1].file
        /\ RecordsOf(api_endpoints[k1], run) # {}
        /\ Fetched(k2) /\ ~outcomes[k2].conn
        /\ FileWritten(api_endpoints[k2])

\* C2: once the run has ended, an endpoint whose fetch failed with an HTTP
\* status or a transport error has no sink write, and every later endpoint
\* of the list has been fetched and processed.
C2_FetchFailureSkipsSinksAndRunGoesOn ==
    Ended =>
        \A k \in Endpoints :
            (Processed(k) /\ outcomes[k].fetch \in {"http_error", "transport_error"}) =>
                /\ Count("save_file", api_endpoints[k]) = 0
                /\ Count("save_mongodb", api_endpoints[k]) = 0
                /\ rets[k] = "None"
                /\ \A j \in Endpoints :
                      j > k => Processed(j) /\ Count("GET", api_endpoints[j]) = 1

\* C3: no database client is left open once _save_to_mongodb has returned.
C3_NoClientLeftOpen == openClients = 0

\* C4: no exception of a database write leaves _save_to_mongodb, and the run
\* is not ended by one.
C4_DatabaseErrorsNeverEscape ==
    /\ pc # "crashed"
    /\ \A k \in 1..Len(rets) : rets[k] # "raise"

\* C5: in live mode a response whose body is not valid JSON makes
\* get_api_response return None with no sink call for that endpoint, and the
\* loop goes on to the next endpoint.
C5_BadJsonIsLocalFetchFailure ==
    \A k \in Endpoints :
        (Processed(k) /\ outcomes[k].fetch = "bad_json") =>
            /\ rets[k] = "None"
            /\ Count("GET", api_endpoints[k]) = 1
            /\ Count("save_file", api_endpoints[k]) = 0
            /\ Count("save_mongodb", api_endpoints[k]) = 0
            /\ FileName(api_endpoints[k]) \notin DOMAIN files
            /\ RecordsOf(api_endpoints[k], run) = {}
            /\ i > k
            /\ pc # "config_error"

\* a body that is not JSON was answered for one endpoint and the next
\* endpoint has been processed after it
C5_Witness ==
    \E k \in Endpoints :
        /\ Processed(k) /\ outcomes[k].fetch = "bad_json"
        /\ Processed(k + 1)

\* the required variables that are unset or empty
MissingNames ==
    {RequiredVars[n] : n \in {m \in 1..Len(RequiredVars) :
                                 environ[RequiredVars[m]] \in {Unset, <<>>}}}

\* TEST_MODE holds one of the spellings of true
TestModeEnabled == environ["TEST_MODE"] \in {<<"T","r","u","e">>}

\* C6: without test mode, a missing or empty ILO_HOST, ILO_USER or
\* ILO_PASSWORD makes main raise the configuration error, which names exactly
\* the missing variables, before any request, file write or database write;
\* with test mode the error is never raised.
C6_ConfigurationError ==
    /\ pc = "config_error" =>
          /\ ~TestModeEnabled
          /\ error # <<>>
          /\ {error[n] : n \in 1..Len(error)} = MissingNames
          /\ trace = <<>> /\ outcomes = <<>>
          /\ files = <<>> /\ records = <<>> /\ openClients = 0
    /\ (pc # "main" /\ ~TestModeEnabled /\ MissingNames # {}) => pc = "config_error"
    /\ TestModeEnabled => pc # "config_error"

\* main has raised the error for an empty variable and an unset one
C6_Witness ==
    /\ pc = "config_error"
    /\ environ["ILO_HOST"] = <<>>
    /\ environ["ILO_PASSWORD"] = Unset
    /\ environ["ILO_USER"] = <<"x">>

\* C7: a run of collect_all in test mode that has ended made no HTTP request,
\* and for each of the four endpoints the fetch succeeded and there was one
\* file write and one database write.
C7_SimulationRun ==
    (Ended /\ collector.test_mode) =>
        /\ \A n \in 1..Len(trace) : trace[n].op # "GET"
        /\ \A k \in Endpoints :
              /\ Processed(k) /\ rets[k] = "data"
              /\ Count("save_file", api_endpoints[k]) = 1
              /\ Count("save_mongodb", api_endpoints[k]) = 1

\* after n invocations in which nothing failed: one file per endpoint,
\* holding the document of invocation n, and one record per endpoint and
\* invocation
C8_AfterCleanRuns ==
    (pc = "complete" /\ faults = 0) =>
        /\ Cardinality(DOMAIN files) = Len(api_endpoints)
        /\ \A k \in Endpoints : FileWritten(api_endpoints[k])
        /\ Len(records) = Len(api_endpoints) * run
        /\ \A k \in Endpoints : \A r \in 1..run :
              Cardinality(RecordsOf(api_endpoints[k], r)) = 1
        /\ \A m, n \in 1..Len(records) : m # n => records[m] # records[n]

\* a step leaves every record of the collection as it was
C8_AppendOnly ==
    /\ Len(records') >= Len(records)
    /\ SubSeq(records', 1, Len(records)) = records

\* C8: across invocations in which every fetch and write succeeds, each
\* endpoint's file holds the document of the latest invocation and the
\* collection gains one distinct record per endpoint per invocation (4 files
\* and 4*n records after n invocations); no step changes or removes a record.
C8_OverwriteFilesAppendRecords == [](C8_AfterCleanRuns) /\ [][C8_AppendOnly]_vars

\* a second invocation has completed and nothing failed in either
C8_Witness == pc = "complete" /\ faults = 0 /\ run >= 2 /\ Len(records) > Len(api_endpoints)

\* the endpoints of the calls of the trace, as positions in api_endpoints
PositionOf(e) == CHOOSE k \in Endpoints : api_endpoints[k] = e

\* C9: a run that got past the configuration check and has ended has reached
\* the completion notice, having processed each endpoint once, in list order,
\* one at a time.
C9_EveryEndpointOnceThenComplete ==
    Ended =>
        /\ pc = "complete"
        /\ Len(outcomes) = Len(api_endpoints)
        /\ \A k \in Endpoints :
              Count("GET", api_endpoints[k]) + Count("save_file", api_endpoints[k]) >= 1
        /\ \A m, n \in 1..Len(trace) :
              m < n => PositionOf(trace[m].endpoint) <= PositionOf(trace[n].endpoint)

\* single leading '/', no trailing '/', no '_'
WellFormed(p) ==
    /\ Len(p) >= 2
    /\ p[1] = Slash /\ p[2] # Slash /\ p[Len(p)] # Slash
    /\ \A k \in 1..Len(p) : p[k] # Underscore

RootJson == RootToken \o JsonSuffix

ExamplesHold ==
    /\ pathA = EndpointRoot =>
          nameA = <<"r","e","d","f","i","s","h","_","v","1">> \o JsonSuffix
    /\ pathA = EndpointSystems =>
          nameA = <<"r","e","d","f","i","s","h","_","v","1","_",
                    "S","y","s","t","e","m","s","_","1">> \o JsonSuffix
    /\ pathA \in {<<>>, <<Slash>>} => nameA = RootJson

\* C10 as stated: the examples hold and two distinct endpoint paths never get
\* the same file name.
C10_CollisionFree ==
    nameA # NoName =>
        /\ ExamplesHold
        /\ pathA # pathB => nameA # nameB

\* C10 as amended: the examples hold, equal paths get equal names, and two
\* distinct well-formed endpoint paths (a single leading '/', no trailing
\* '/', no '_'), among them the four fixed endpoints, never get the same
\* file name.
C10_CollisionFreeOnWellFormed ==
    nameA # NoName =>
        /\ ExamplesHold
        /\ pathA = pathB => nameA = nameB
        /\ \A k \in Endpoints : WellFormed(api_endpoints[k])
        /\ (WellFormed(pathA) /\ WellFormed(pathB) /\ pathA # pathB) => nameA # nameB

\* the names of two distinct well-formed paths, one of them a fixed endpoint
C10_Witness ==
    /\ nameA # NoName
    /\ pathA = EndpointSystems
    /\ WellFormed(pathB) /\ pathB # pathA

====
